---- MODULE Spec2Model ----
(***************************************************************************)
(* A model of the task scheduler of the agent orchestrator                 *)
(* (src/backend/task_scheduler.py) together with the part of the message   *)
(* broker it talks to (src/backend/message_broker.py).                     *)
(*                                                                         *)
(* Abstractions.                                                           *)
(*  - Task ids are 1, 2, ... in creation order: uuid4 never repeats an id  *)
(*    and a caller cannot name an id before it is issued.  GhostId is an   *)
(*    id string a caller made up; it never names a task.                   *)
(*  - progress is counted in halves: 0 = 0.0, 1 = 0.5, Scale = 1.0.        *)
(*  - Time: due is "none" or "past" (due_date < now); the inputs explored  *)
(*    here create tasks without a due date.  Whether the tasks are older   *)
(*    than the 30 day cleanup cutoff is an input of the pass of the loop,  *)
(*    which reads the clock.                                               *)
(*  - db is the set of ids that have a row in the tasks table.             *)
(*  - title, description, metadata, result, error_message, parent_task     *)
(*    and subtasks are not modelled.                                       *)
(*  - The scheduler builds every message it sends with                     *)
(*    message_type=self.message_broker.MessageType.X.  MessageType is a    *)
(*    module-level enum of message_broker.py and no attribute of the       *)
(*    MessageBroker class or instance, so the expression raises            *)
(*    AttributeError before create_message or send_message is called: the  *)
(*    operation stops there, keeps the mutations made so far, performs     *)
(*    none of the later statements, and the exception reaches the caller.  *)
(***************************************************************************)
EXTENDS Integers, Sequences, FiniteSets, TLC

VARIABLES
    tasks,            \* TaskScheduler.tasks: task id -> Task
    agent_workloads,  \* TaskScheduler.agent_workloads, in dict insertion order
    db,               \* ids of the rows of the persisted tasks table
    uuid_count,       \* number of task ids issued so far
    agent_queues,     \* MessageBroker.agent_queues: registered agent -> inbox
    msg_count,        \* number of message ids issued so far
    received,         \* agent -> the messages receive_message returned to it
    send_result,      \* what the latest send_message returned
    agent_rows,       \* ids of the rows of the agents table
    agent_count,      \* number of agent ids issued so far
    active_agents,    \* AgentManager._active_agents: the ids that are active
    broadcast_channels, \* MessageBroker.broadcast_channels: channel -> members
    think_run,        \* the locals of the call of Agent.think in progress
    task_rows,        \* the tasks table: task id -> the persisted row
    task_family,      \* task id -> parent_task and subtasks of the Task
    full_message,     \* the Message that create_message built, with every field
    full_copies,      \* recipient -> the Message send_message put in its inbox
    running,          \* TaskScheduler._running
    loops,            \* the instances of _scheduler_loop, in the order of their creation
    cycle_count,      \* number of passes the loops have made
    loaded_models,    \* LLMProvider.loaded_models: the model ids that are loaded
    model_locks,      \* LLMProvider.model_locks: model id -> the thread that holds the lock
    callers,          \* thread -> its position in get_model or generate
    load_counts,      \* model id -> number of times a loader has stored the model
    coroutines,       \* coroutine -> its position in an operation of the scheduler
    owner             \* the coroutine the event loop is running

schedulerVars == <<tasks, agent_workloads, db, uuid_count>>

brokerVars == <<agent_queues, msg_count, received, send_result>>

agentVars ==
    <<agent_rows, agent_count, active_agents, broadcast_channels, think_run>>

storeVars == <<task_rows, task_family>>

copyVars == <<full_message, full_copies>>

loopVars == <<running, loops, cycle_count>>

providerVars == <<loaded_models, model_locks, callers, load_counts>>

serialVars == <<coroutines, owner>>

otherVars == <<storeVars, copyVars, loopVars, providerVars, serialVars>>

vars == <<schedulerVars, brokerVars, agentVars, otherVars>>

----------------------------------------------------------------------------
(* Bounds and input sets *)

MaxTasks == 2
MaxWorkload == 2
MaxDeps == 1

Scale == 2
WorkloadCap == 3
BatchLimit == 5

None == "none"
GhostId == 0
Agents == {"a1"}
AgentIds == Agents \cup {"ax"}
Creators == {"a1"}
Priorities == {2}
DueDates == {"none"}
ProgressInputs == {-1, 0, 1, 2, 3}

MaxMessages == 4
MaxLoops == 3
MaxCycles == 3
MaxLoads == 2
MaxIterations == 2
AgentOrder == <<"a1", "a2">>
BrokerAgents == {AgentOrder[i] : i \in 1..Len(AgentOrder)}
AgentRank(a) == CHOOSE i \in 1..Len(AgentOrder) : AgentOrder[i] = a
Senders == {"a1", "u"}
Recipients == BrokerAgents \cup {"ALL"}
MessageTypes == {"request", "broadcast"}

TaskStatus == {"pending", "assigned", "in_progress", "completed", "failed",
               "cancelled", "blocked"}
Terminal == {"completed", "failed", "cancelled"}

\* Agent.think before any call
IdleRun ==
    [pc |-> "idle", k |-> 0, i |-> 0, calls |-> 0, tools |-> {},
     allowed |-> [given |-> FALSE, names |-> {}],
     history |-> <<>>, executed |-> <<>>, result |-> None, raised |-> None,
     stop |-> FALSE]

----------------------------------------------------------------------------
(* The scheduler's tables as one value, so that operations compose *)

State(T, W, D) == [t |-> T, w |-> W, d |-> D]

Here == State(tasks, agent_workloads, db)

Task(by, ag, pr, due, deps) ==
    [assigned_agent |-> ag, created_by |-> by, status |-> "pending",
     priority |-> pr, due |-> due, dependencies |-> deps, progress |-> 0]

\* a generator that hands out the latest id again
ReusedTaskId(n) == IF n = 0 THEN 1 ELSE n

\* the id of the next task: a fresh uuid4
NewTaskId(n) == n + 1

\* _save_task_to_db: INSERT of the task's row
SaveTaskToDb(S, id) == [S EXCEPT !.d = S.d \cup {id}]

\* a dependency check that lets a dependency on an unknown id pass
CheckDependenciesLax(T, task) ==
    \A dep \in task.dependencies : dep \in DOMAIN T => T[dep].status = "completed"

\* _check_dependencies
CheckDependencies(T, task) ==
    \A dep \in task.dependencies :
        dep \in DOMAIN T /\ T[dep].status = "completed"

----------------------------------------------------------------------------
(* agent_workloads: a sequence of [agent, tasks] in insertion order *)

HasWorkload(W, a) == \E i \in 1..Len(W) : W[i].agent = a

WorkloadIndex(W, a) == CHOOSE i \in 1..Len(W) : W[i].agent = a

WorkloadOf(W, a) == IF HasWorkload(W, a) THEN W[WorkloadIndex(W, a)].tasks ELSE <<>>

InSeq(s, x) == \E i \in 1..Len(s) : s[i] = x

\* list.remove(x): drops the first occurrence
RemoveFirst(s, x) ==
    IF ~InSeq(s, x) THEN s
    ELSE LET k == CHOOSE i \in 1..Len(s) :
                      s[i] = x /\ \A j \in 1..(i - 1) : s[j] # x
         IN  [i \in 1..(Len(s) - 1) |-> IF i < k THEN s[i] ELSE s[i + 1]]

\* assign_task lines 161-164
AppendWorkload(W, a, id) ==
    IF HasWorkload(W, a)
    THEN [W EXCEPT ![WorkloadIndex(W, a)].tasks = Append(@, id)]
    ELSE Append(W, [agent |-> a, tasks |-> <<id>>])

\* complete_task lines 221-224, fail_task lines 258-261
RemoveFromWorkload(W, a, id) ==
    IF a # None /\ HasWorkload(W, a)
    THEN [W EXCEPT ![WorkloadIndex(W, a)].tasks = RemoveFirst(@, id)]
    ELSE W

\* get_agent_workload: the tasks of the agent's list that are still in the table
GetAgentWorkload(S, a) ==
    LET l == WorkloadOf(S.w, a)
    IN  {l[i] : i \in {j \in 1..Len(l) : l[j] \in DOMAIN S.t}}

----------------------------------------------------------------------------
(* The operations of TaskScheduler, as functions of the tables *)

\* an assign_task that records the agent before it looks at the dependencies
AssignTaskEager(S, id, agent) ==
    IF id \notin DOMAIN S.t THEN S
    ELSE IF ~CheckDependencies(S.t, S.t[id])
    THEN [S EXCEPT !.t[id].assigned_agent = agent, !.t[id].status = "blocked"]
    ELSE [S EXCEPT !.t[id].assigned_agent = agent,
                   !.t[id].status = "assigned",
                   !.w = AppendWorkload(S.w, agent, id)]

\* assign_task.  With satisfied dependencies the task and the workload are
\* changed and line 171 raises: no message is sent.
AssignTask(S, id, agent) ==
    IF id \notin DOMAIN S.t THEN S
    ELSE IF ~CheckDependencies(S.t, S.t[id])
    THEN [S EXCEPT !.t[id].status = "blocked"]
    ELSE [S EXCEPT !.t[id].assigned_agent = agent,
                   !.t[id].status = "assigned",
                   !.w = AppendWorkload(S.w, agent, id)]

\* what assign_task hands to its caller
AssignTaskResult(S, id, agent) ==
    IF id \notin DOMAIN S.t THEN "false"
    ELSE IF ~CheckDependencies(S.t, S.t[id]) THEN "false"
    ELSE "raises"

\* _check_dependent_tasks
CheckDependentTasks(S, done) ==
    LET hit == {id \in DOMAIN S.t :
                   /\ done \in S.t[id].dependencies
                   /\ S.t[id].status = "blocked"
                   /\ CheckDependencies(S.t, S.t[id])}
    IN  [S EXCEPT !.t = [id \in DOMAIN S.t |->
                            IF id \in hit
                            THEN [S.t[id] EXCEPT !.status = "pending"]
                            ELSE S.t[id]]]

Clamp(p) == IF p < 0 THEN 0 ELSE IF p > Scale THEN Scale ELSE p

\* lines 194-199 of update_task_progress
ProgressStatus(old, p, st) ==
    IF st # None THEN st
    ELSE IF p >= Scale THEN "completed"
    ELSE IF p > 0 THEN "in_progress"
    ELSE old

\* update_task_progress
UpdateTaskProgress(S, id, p, st) ==
    IF id \notin DOMAIN S.t THEN S
    ELSE LET S2 == [S EXCEPT !.t[id].progress = Clamp(p),
                             !.t[id].status = ProgressStatus(@, p, st)]
         IN  IF S2.t[id].status = "completed"
             THEN CheckDependentTasks(S2, id)
             ELSE S2

\* complete_task.  Line 234 raises when the notification to the creator is
\* built, which is before the unblock sweep of line 243.
CompleteTask(S, id) ==
    IF id \notin DOMAIN S.t THEN S
    ELSE LET S2 == [S EXCEPT !.t[id].status = "completed",
                             !.t[id].progress = Scale,
                             !.w = RemoveFromWorkload(S.w, S.t[id].assigned_agent, id)]
         IN  IF S.t[id].created_by # S.t[id].assigned_agent
             THEN S2
             ELSE CheckDependentTasks(S2, id)

\* fail_task.  Line 270 raises when the notification to the creator is built.
FailTask(S, id) ==
    IF id \notin DOMAIN S.t THEN S
    ELSE [S EXCEPT !.t[id].status = "failed",
                   !.w = RemoveFromWorkload(S.w, S.t[id].assigned_agent, id)]

\* create_task: the task is stored and inserted, then assigned when an agent
\* was given
CreateTask(S, id, by, ag, pr, due, deps) ==
    LET S1 == [S EXCEPT !.t = (id :> Task(by, ag, pr, due, deps)) @@ S.t]
        S2 == SaveTaskToDb(S1, id)
    IN  IF ag # None THEN AssignTask(S2, id, ag) ELSE S2

----------------------------------------------------------------------------
(* The periodic loop *)

\* the sort key of get_available_tasks: (priority, created_at), reverse=True;
\* created_at grows with the id
Before(T, x, y) ==
    \/ T[x].priority > T[y].priority
    \/ T[x].priority = T[y].priority /\ x > y

RECURSIVE SortTasks(_, _)
SortTasks(T, ids) ==
    IF ids = {} THEN <<>>
    ELSE LET first == CHOOSE x \in ids : \A y \in ids \ {x} : Before(T, x, y)
         IN  <<first>> \o SortTasks(T, ids \ {first})

\* get_available_tasks
GetAvailableTasks(T, agent) ==
    SortTasks(T, {id \in DOMAIN T :
                     /\ T[id].status = "pending"
                     /\ CheckDependencies(T, T[id])
                     /\ (agent = None \/ T[id].assigned_agent = None
                                      \/ T[id].assigned_agent = agent)})

\* _check_overdue_tasks raises at line 383 for the first overdue task that
\* has an assigned agent; without one it changes nothing
OverdueRaises(T) ==
    \E id \in DOMAIN T :
        /\ T[id].due = "past"
        /\ T[id].status \notin Terminal
        /\ T[id].assigned_agent # None

\* lines 395-401 of _auto_assign_tasks: the first entry of agent_workloads
\* with the shortest list; 0 when the dict is empty
BestAgentIndex(W) ==
    IF W = <<>> THEN 0
    ELSE CHOOSE i \in 1..Len(W) :
             /\ \A j \in 1..Len(W) : Len(W[i].tasks) <= Len(W[j].tasks)
             /\ \A j \in 1..(i - 1) : Len(W[j].tasks) > Len(W[i].tasks)

Head5(s) == SubSeq(s, 1, IF Len(s) < BatchLimit THEN Len(s) ELSE BatchLimit)

\* does _auto_assign_tasks call assign_task
AutoAssigns(S) ==
    /\ Head5(GetAvailableTasks(S.t, None)) # <<>>
    /\ BestAgentIndex(S.w) # 0
    /\ Len(S.w[BestAgentIndex(S.w)].tasks) < WorkloadCap

\* _auto_assign_tasks: the first assign_task raises, which ends the pass
AutoAssignTasks(S) ==
    IF AutoAssigns(S)
    THEN AssignTask(S, Head(GetAvailableTasks(S.t, None)),
                    S.w[BestAgentIndex(S.w)].agent)
    ELSE S

\* _cleanup_old_tasks: the table forgets them, the rows stay.  old says
\* that updated_at of the finished tasks is before now - 30 days.
CleanupOldTasks(S, old) ==
    LET gone == {id \in DOMAIN S.t :
                    S.t[id].status \in {"completed", "cancelled"} /\ old}
    IN  [S EXCEPT !.t = [id \in DOMAIN S.t \ gone |-> S.t[id]]]

\* one pass of the body of _scheduler_loop; an exception ends the pass
SchedulerPass(S, old) ==
    IF OverdueRaises(S.t) THEN S
    ELSE IF AutoAssigns(S) THEN AutoAssignTasks(S)
    ELSE CleanupOldTasks(S, old)

----------------------------------------------------------------------------
(* Actions *)

Install(S) ==
    /\ tasks' = S.t
    /\ agent_workloads' = S.w
    /\ db' = S.d

RECURSIVE Entries(_)
Entries(W) == IF W = <<>> THEN 0 ELSE Len(Head(W).tasks) + Entries(Tail(W))

\* the lists of the model hold at most MaxWorkload entries together
Bounded(S) == Entries(S.w) <= MaxWorkload

DoCreateTask(by, ag, pr, due, deps) ==
    /\ uuid_count < MaxTasks
    /\ LET S == CreateTask(Here, NewTaskId(uuid_count), by, ag, pr, due, deps)
       IN  Bounded(S) /\ Install(S)
    /\ uuid_count' = uuid_count + 1
    /\ UNCHANGED <<brokerVars, agentVars, otherVars>>

DoAssignTask(id, agent) ==
    /\ LET S == AssignTask(Here, id, agent) IN Bounded(S) /\ Install(S)
    /\ UNCHANGED <<uuid_count, brokerVars, agentVars, otherVars>>

DoUpdateTaskProgress(id, p, st) ==
    /\ Install(UpdateTaskProgress(Here, id, p, st))
    /\ UNCHANGED <<uuid_count, brokerVars, agentVars, otherVars>>

DoCompleteTask(id) ==
    /\ Install(CompleteTask(Here, id))
    /\ UNCHANGED <<uuid_count, brokerVars, agentVars, otherVars>>

DoFailTask(id) ==
    /\ Install(FailTask(Here, id))
    /\ UNCHANGED <<uuid_count, brokerVars, agentVars, otherVars>>

DoSchedulerCycle(old) ==
    /\ LET S == SchedulerPass(Here, old) IN Bounded(S) /\ Install(S)
    /\ UNCHANGED <<uuid_count, brokerVars, agentVars, otherVars>>

TaskIds == 1..MaxTasks

DepInputs ==
    {deps \in SUBSET ((1..uuid_count) \cup {GhostId}) : Cardinality(deps) <= MaxDeps}

Create ==
    \E by \in Creators, ag \in AgentIds \cup {None}, pr \in Priorities,
       due \in DueDates, deps \in DepInputs :
        DoCreateTask(by, ag, pr, due, deps)

Assign == \E id \in TaskIds, agent \in AgentIds : DoAssignTask(id, agent)

UpdateProgress ==
    \E id \in TaskIds, p \in ProgressInputs, st \in TaskStatus \cup {None} :
        DoUpdateTaskProgress(id, p, st)

Complete == \E id \in TaskIds : DoCompleteTask(id)

Fail == \E id \in TaskIds : DoFailTask(id)

SchedulerCycle == \E old \in BOOLEAN : DoSchedulerCycle(old)

Next ==
    \/ Create
    \/ Assign
    \/ UpdateProgress
    \/ Complete
    \/ Fail
    \/ SchedulerCycle

----------------------------------------------------------------------------
\* no agent created, no channel, no call of think in progress
AgentInit ==
    /\ agent_rows = {}
    /\ agent_count = 0
    /\ active_agents = {}
    /\ broadcast_channels = <<>>
    /\ think_run = IdleRun

Threads == {"t1", "t2"}

\* models_config: the configured model ids and their providers
ModelsConfig == [m1 |-> "huggingface", m2 |-> "other"]

ModelIds == DOMAIN ModelsConfig \cup {"zz"}

IdleCaller ==
    [pc |-> "idle", kind |-> None, model |-> None, result |-> None,
     loaded |-> FALSE]

Coroutines == {"handler", "worker", "loop"}

IdleCoroutine ==
    [pc |-> "idle", op |-> None, id |-> 0, agent |-> None, deps |-> {},
     old |-> FALSE,
     start |-> [t |-> <<>>, w |-> <<>>, d |-> {}]]

\* no row, and no call of the other components in progress
OtherInit ==
    /\ task_rows = <<>>
    /\ task_family = <<>>
    /\ full_message = [id |-> 0]
    /\ full_copies = <<>>
    /\ running = FALSE
    /\ loops = <<>>
    /\ cycle_count = 0
    /\ loaded_models = {}
    /\ model_locks = [m \in DOMAIN ModelsConfig |-> None]
    /\ callers = [t \in Threads |-> IdleCaller]
    /\ load_counts = [m \in DOMAIN ModelsConfig |-> 0]
    /\ coroutines = [c \in Coroutines |-> IdleCoroutine]
    /\ owner = None

Init ==
    /\ tasks = <<>>
    /\ agent_workloads = <<>>
    /\ db = {}
    /\ uuid_count = 0
    /\ agent_queues = [a \in Agents |-> <<>>]
    /\ msg_count = 0
    /\ received = [a \in BrokerAgents |-> <<>>]
    /\ send_result = None
    /\ AgentInit
    /\ OtherInit

Spec == Init /\ [][Next]_vars

----------------------------------------------------------------------------
(* The message broker: MessageBroker of message_broker.py.  A message is    *)
(* its id, sender, recipient, type and the task id of its metadata; ids    *)
(* are 1, 2, ... in the order uuid4 is asked for them.  The rows written   *)
(* to agent_communications are not modelled.                               *)

Message(id, sender, recipient, type) ==
    [id |-> id, sender |-> sender, recipient |-> recipient,
     message_type |-> type, task_id |-> None]

CreateMessage(n, sender, recipient, type) ==
    Message(n + 1, sender, recipient, type)

RegisterAgent(Q, a) == IF a \in DOMAIN Q THEN Q ELSE (a :> <<>>) @@ Q

UnregisterAgent(Q, a) == [b \in DOMAIN Q \ {a} |-> Q[b]]

\* a queue that hands out the newest message first
PutFront(q, m) == <<m>> \o q

\* asyncio.Queue.put
Put(q, m) == Append(q, m)

\* a broadcast that also reaches its sender
EveryAgent(Q, sender) == DOMAIN Q

\* the agents a broadcast of sender reaches
BroadcastTargets(Q, sender) == DOMAIN Q \ {sender}

\* the position of agent a among the targets, in the order of AgentOrder
CopyIndex(a, targets) ==
    Cardinality({b \in targets : AgentRank(b) <= AgentRank(a)})

\* _broadcast_message, with n ids issued before it
BroadcastMessage(Q, m, n) ==
    LET targets == BroadcastTargets(Q, m.sender) \cap DOMAIN Q
    IN [q  |-> [a \in DOMAIN Q |->
                  IF a \in targets
                  THEN Put(Q[a], Message(n + CopyIndex(a, targets), m.sender,
                                         a, m.message_type))
                  ELSE Q[a]],
        ok |-> targets # {},
        n  |-> n + Cardinality(targets)]

\* a send_message that reports success for every direct message
SendMessageOptimistic(Q, m, n) ==
    IF m.recipient = "ALL" \/ m.message_type = "broadcast"
    THEN [q  |-> [a \in DOMAIN Q |->
                    IF a # m.sender
                    THEN Append(Q[a], Message(n + CopyIndex(a, DOMAIN Q \ {m.sender}),
                                              m.sender, a, m.message_type))
                    ELSE Q[a]],
          ok |-> DOMAIN Q \ {m.sender} # {},
          n  |-> n + Cardinality(DOMAIN Q \ {m.sender})]
    ELSE [q  |-> IF m.recipient \in DOMAIN Q
                 THEN [Q EXCEPT ![m.recipient] = Append(@, m)] ELSE Q,
          ok |-> TRUE, n |-> n]

\* send_message, with n ids issued before it
SendMessage(Q, m, n) ==
    IF m.recipient = "ALL" \/ m.message_type = "broadcast"
    THEN BroadcastMessage(Q, m, n)
    ELSE IF m.recipient \in DOMAIN Q
         THEN [q |-> [Q EXCEPT ![m.recipient] = Put(@, m)], ok |-> TRUE, n |-> n]
         ELSE [q |-> Q, ok |-> FALSE, n |-> n]

DoRegisterAgent(a) ==
    /\ agent_queues' = RegisterAgent(agent_queues, a)
    /\ UNCHANGED <<schedulerVars, otherVars, agentVars, msg_count, received, send_result>>

DoUnregisterAgent(a) ==
    /\ agent_queues' = UnregisterAgent(agent_queues, a)
    /\ UNCHANGED <<schedulerVars, otherVars, agentVars, msg_count, received, send_result>>

\* create_message followed by send_message, as every caller does
DoSendMessage(sender, recipient, type) ==
    /\ msg_count < MaxMessages
    /\ LET m == CreateMessage(msg_count, sender, recipient, type)
           R == SendMessage(agent_queues, m, msg_count + 1)
       IN /\ agent_queues' = R.q
          /\ msg_count' = R.n
          /\ send_result' = IF R.ok THEN "true" ELSE "false"
    /\ UNCHANGED <<schedulerVars, otherVars, agentVars, received>>

\* receive_message that returns a message; on an empty inbox it waits or
\* times out and for an unknown agent it returns None, changing nothing
DoReceiveMessage(a) ==
    /\ a \in DOMAIN agent_queues
    /\ agent_queues[a] # <<>>
    /\ received' = [received EXCEPT ![a] = Append(@, Head(agent_queues[a]))]
    /\ agent_queues' = [agent_queues EXCEPT ![a] = Tail(@)]
    /\ UNCHANGED <<schedulerVars, otherVars, agentVars, msg_count, send_result>>

Register == \E a \in BrokerAgents : DoRegisterAgent(a)

Unregister == \E a \in BrokerAgents : DoUnregisterAgent(a)

Send ==
    \E sender \in Senders, recipient \in Recipients, type \in MessageTypes :
        DoSendMessage(sender, recipient, type)

Receive == \E a \in BrokerAgents : DoReceiveMessage(a)

BrokerNext ==
    \/ Register
    \/ Unregister
    \/ Send
    \/ Receive

BrokerInit ==
    /\ tasks = <<>>
    /\ agent_workloads = <<>>
    /\ db = {}
    /\ uuid_count = 0
    /\ agent_queues = <<>>
    /\ msg_count = 0
    /\ received = [a \in BrokerAgents |-> <<>>]
    /\ send_result = None
    /\ AgentInit
    /\ OtherInit

BrokerSpec == BrokerInit /\ [][BrokerNext]_vars

----------------------------------------------------------------------------
(* The reason-act loop: Agent.think of src/Untitled-19.py (backend/agent.py). *)
(* A model response is one of the classes the parser tells apart:           *)
(*   final_answer  plain text without a fenced json block;                  *)
(*   fenced_other  a fenced block that does not decode to an object with    *)
(*                 the keys tool and args (bad JSON, a list, two blocks);   *)
(*   tool_call     one fenced object with a tool name and an args object;   *)
(*   json_scalar   a fenced block that decodes to a number or null, or an   *)
(*                 object whose tool is a list: the parser or the registry  *)
(*                 lookup raises TypeError, which nothing catches;          *)
(*   failure       generate raises instead of returning a response.         *)
(* The execute of a tool returns or raises; which is an input of the step.  *)

Registered == {"ok", "other"}

ToolNames == Registered \cup {"zz"}

AllowedInputs ==
    {[given |-> FALSE, names |-> {}], [given |-> TRUE, names |-> {}],
     [given |-> TRUE, names |-> {"ok"}], [given |-> TRUE, names |-> {"zz"}]}

KInputs == -1..MaxIterations

Fallback == "I could not determine a final answer"

Cancelled == "cancelled"

Responses ==
    [type : {"final_answer", "fenced_other", "json_scalar", "failure"},
     tool : {None}]
        \cup [type : {"tool_call"}, tool : ToolNames]

ExecuteOutcomes == {"returns", "raises"}

\* Agent.__init__: the agent's tools
AgentTools(allowed) ==
    IF allowed.given /\ allowed.names # {}
    THEN {t \in Registered : t \in allowed.names}
    ELSE Registered

\* _parse_llm_response
ParseLlmResponse(resp) ==
    CASE resp.type = "tool_call"   -> [type |-> "tool_call", tool |-> resp.tool]
      [] resp.type = "json_scalar" -> [type |-> "raises", tool |-> None]
      [] OTHER                     -> [type |-> "final_answer", tool |-> None]

\* a lookup that forgets the agent's own tool set
ToolRegistered(name, tools) == name \in Registered

\* tool and tool in self.tools
ToolAvailable(name, tools) == name \in Registered /\ name \in tools

Observation(action, tool, obs) == [action |-> action, tool |-> tool, obs |-> obs]

\* a loop in which the error of a tool escapes
ThinkIterationUnguarded(R, resp, outcome) ==
    IF R.i >= R.k THEN [R EXCEPT !.pc = "done", !.result = Fallback]
    ELSE IF resp.type = "failure"
    THEN [R EXCEPT !.pc = "raised", !.raised = "GenerationFailure", !.calls = @ + 1]
    ELSE IF resp.type = "json_scalar"
    THEN [R EXCEPT !.pc = "raised", !.raised = "TypeError", !.calls = @ + 1]
    ELSE IF resp.type # "tool_call"
    THEN [R EXCEPT !.pc = "done", !.result = "final_answer", !.calls = @ + 1]
    ELSE IF resp.tool \in Registered /\ resp.tool \in R.tools
    THEN IF outcome = "raises"
         THEN [R EXCEPT !.pc = "raised", !.raised = "ToolError", !.calls = @ + 1,
                        !.executed = Append(@, resp.tool)]
         ELSE [R EXCEPT !.i = @ + 1, !.calls = @ + 1,
                        !.executed = Append(@, resp.tool),
                        !.history = Append(@, Observation("used", resp.tool, "result"))]
    ELSE [R EXCEPT !.i = @ + 1, !.calls = @ + 1,
                   !.history = Append(@, Observation("tried", resp.tool, "not_available"))]

\* one turn of the for loop of think, or its exit when the cap is reached
ThinkIteration(R, resp, outcome) ==
    IF R.i >= R.k
    THEN [R EXCEPT !.pc = "done", !.result = Fallback]
    ELSE IF resp.type = "failure"
    THEN [R EXCEPT !.pc = "raised", !.raised = "GenerationFailure",
                   !.calls = @ + 1]
    ELSE LET C == [R EXCEPT !.calls = @ + 1]
             parsed == ParseLlmResponse(resp)
         IN CASE parsed.type = "raises" ->
                     [C EXCEPT !.pc = "raised", !.raised = "TypeError"]
              [] parsed.type = "final_answer" ->
                     [C EXCEPT !.pc = "done", !.result = "final_answer"]
              [] parsed.type = "tool_call" ->
                     IF ToolAvailable(parsed.tool, R.tools)
                     THEN [C EXCEPT
                             !.i = @ + 1,
                             !.executed = Append(@, parsed.tool),
                             !.history = Append(@,
                                 Observation("used", parsed.tool,
                                     IF outcome = "returns" THEN "result"
                                     ELSE "error_executing"))]
                     ELSE [C EXCEPT
                             !.i = @ + 1,
                             !.history = Append(@,
                                 Observation("tried", parsed.tool, "not_available"))]

\* a call of think(prompt, k) on an agent built with the allowed tool names
DoStartThink(k, allowed) ==
    /\ think_run.pc # "loop"
    /\ think_run' = [IdleRun EXCEPT !.pc = "loop", !.k = k,
                                    !.allowed = allowed,
                                    !.tools = AgentTools(allowed)]
    /\ UNCHANGED <<schedulerVars, otherVars, brokerVars, agent_rows, agent_count,
                   active_agents, broadcast_channels>>

DoThinkIteration(resp, outcome) ==
    /\ think_run.pc = "loop"
    /\ think_run' = ThinkIteration(think_run, resp, outcome)
    /\ UNCHANGED <<schedulerVars, otherVars, brokerVars, agent_rows, agent_count,
                   active_agents, broadcast_channels>>

\* stop is signalled for the agent while its think is running
DoStopSignal ==
    /\ think_run.pc = "loop"
    /\ think_run' = [think_run EXCEPT !.stop = TRUE]
    /\ UNCHANGED <<schedulerVars, otherVars, brokerVars, agent_rows, agent_count,
                   active_agents, broadcast_channels>>

StartThink == \E k \in KInputs, allowed \in AllowedInputs : DoStartThink(k, allowed)

ThinkStep ==
    \E resp \in Responses, outcome \in ExecuteOutcomes :
        DoThinkIteration(resp, outcome)

ThinkNext ==
    \/ StartThink
    \/ ThinkStep
    \/ DoStopSignal

ThinkInit == BrokerInit

ThinkSpec == ThinkInit /\ [][ThinkNext]_vars

----------------------------------------------------------------------------
(* The agent manager: AgentManager of src/backend/agent_manager.py, with    *)
(* the broker it registers the agents at.  The manager's tables are one     *)
(* value: the rows of the agents table, the active map, the broker's        *)
(* inboxes and its broadcast channels.  The Agent the manager builds is     *)
(* not part of the sources: building it succeeds, and its start and stop    *)
(* return or raise, which is an input of the call.                          *)

Manager(rows, active, Q, ch) == [rows |-> rows, active |-> active, q |-> Q, ch |-> ch]

ManagerHere ==
    Manager(agent_rows, active_agents, agent_queues, broadcast_channels)

TeamNames == {"red"}

ChannelOf(name) == "team_" \o name

AgentOutcomes == {"returns", "raises"}

\* the id of the next agent: a fresh uuid4
NewAgentId(n) == AgentOrder[n + 1]

\* create_agent: the INSERT
CreateAgent(M, id) == [M EXCEPT !.rows = @ \cup {id}]

\* get_agent returns an agent: an active one, or one built from its row
GetAgentFound(M, id) == id \in M.active \/ id \in M.rows

\* a start_agent that leaves the broker out
StartAgentUnregistered(M, id, outcome) ==
    IF id \in M.active \/ ~GetAgentFound(M, id) \/ outcome = "raises" THEN M
    ELSE [M EXCEPT !.active = @ \cup {id}]

\* start_agent
StartAgent(M, id, outcome) ==
    IF id \in M.active THEN M
    ELSE IF ~GetAgentFound(M, id) THEN M
    ELSE LET M1 == [M EXCEPT !.q = RegisterAgent(@, id)]
         IN IF outcome = "raises" THEN M1
            ELSE [M1 EXCEPT !.active = @ \cup {id}]

StartAgentResult(M, id, outcome) ==
    IF id \in M.active THEN "true"
    ELSE IF ~GetAgentFound(M, id) \/ outcome = "raises" THEN "false"
    ELSE "true"

\* stop_agent
StopAgent(M, id, outcome) ==
    IF id \notin M.active THEN M
    ELSE IF outcome = "raises" THEN M
    ELSE [M EXCEPT !.q = UnregisterAgent(@, id), !.active = @ \ {id}]

StopAgentResult(M, id, outcome) ==
    IF id \in M.active /\ outcome = "raises" THEN "false" ELSE "true"

\* delete_agent: stop when active, look the agent up, delete the row
DeleteAgent(M, id, outcome) ==
    LET M1 == IF id \in M.active THEN StopAgent(M, id, outcome) ELSE M
    IN IF ~GetAgentFound(M1, id) THEN M1
       ELSE [M1 EXCEPT !.rows = @ \ {id}]

DeleteAgentResult(M, id, outcome) ==
    LET M1 == IF id \in M.active THEN StopAgent(M, id, outcome) ELSE M
    IN IF GetAgentFound(M1, id) THEN "true" ELSE "false"

\* join_broadcast_channel, awaited
JoinBroadcastChannel(ch, a, c) ==
    IF c \notin DOMAIN ch THEN (c :> <<a>>) @@ ch
    ELSE IF InSeq(ch[c], a) THEN ch
    ELSE [ch EXCEPT ![c] = Append(@, a)]

\* leave_broadcast_channel, awaited
LeaveBroadcastChannel(ch, a, c) ==
    IF c \in DOMAIN ch /\ InSeq(ch[c], a)
    THEN [ch EXCEPT ![c] = RemoveFirst(@, a)]
    ELSE ch

\* create_team calls the coroutine function join_broadcast_channel without
\* awaiting it: each call only builds a coroutine object that never runs
CreateTeam(M, name, ids) == M

CreateTeamResult(M, name, ids) == "true"

InstallManager(M) ==
    /\ agent_rows' = M.rows
    /\ active_agents' = M.active
    /\ agent_queues' = M.q
    /\ broadcast_channels' = M.ch

DoCreateAgent ==
    /\ agent_count < Len(AgentOrder)
    /\ InstallManager(CreateAgent(ManagerHere, NewAgentId(agent_count)))
    /\ agent_count' = agent_count + 1
    /\ UNCHANGED <<schedulerVars, otherVars, msg_count, received, send_result, think_run>>

DoStartAgent(id, outcome) ==
    /\ InstallManager(StartAgent(ManagerHere, id, outcome))
    /\ UNCHANGED <<schedulerVars, otherVars, msg_count, received, send_result, think_run,
                   agent_count>>

DoStopAgent(id, outcome) ==
    /\ InstallManager(StopAgent(ManagerHere, id, outcome))
    /\ UNCHANGED <<schedulerVars, otherVars, msg_count, received, send_result, think_run,
                   agent_count>>

DoDeleteAgent(id, outcome) ==
    /\ InstallManager(DeleteAgent(ManagerHere, id, outcome))
    /\ UNCHANGED <<schedulerVars, otherVars, msg_count, received, send_result, think_run,
                   agent_count>>

DoCreateTeam(name, ids) ==
    /\ InstallManager(CreateTeam(ManagerHere, name, ids))
    /\ UNCHANGED <<schedulerVars, otherVars, msg_count, received, send_result, think_run,
                   agent_count>>

DoJoinBroadcastChannel(a, c) ==
    /\ broadcast_channels' = JoinBroadcastChannel(broadcast_channels, a, c)
    /\ UNCHANGED <<schedulerVars, otherVars, brokerVars, agent_rows, agent_count,
                   active_agents, think_run>>

DoLeaveBroadcastChannel(a, c) ==
    /\ broadcast_channels' = LeaveBroadcastChannel(broadcast_channels, a, c)
    /\ UNCHANGED <<schedulerVars, otherVars, brokerVars, agent_rows, agent_count,
                   active_agents, think_run>>

StartAgents ==
    \E id \in BrokerAgents, outcome \in AgentOutcomes : DoStartAgent(id, outcome)

StopAgents ==
    \E id \in BrokerAgents, outcome \in AgentOutcomes : DoStopAgent(id, outcome)

DeleteAgents ==
    \E id \in BrokerAgents, outcome \in AgentOutcomes : DoDeleteAgent(id, outcome)

CreateTeams ==
    \E name \in TeamNames, ids \in SUBSET BrokerAgents : DoCreateTeam(name, ids)

JoinChannel ==
    \E a \in BrokerAgents, name \in TeamNames :
        DoJoinBroadcastChannel(a, ChannelOf(name))

LeaveChannel ==
    \E a \in BrokerAgents, name \in TeamNames :
        DoLeaveBroadcastChannel(a, ChannelOf(name))

ManagerNext ==
    \/ DoCreateAgent
    \/ StartAgents
    \/ StopAgents
    \/ DeleteAgents
    \/ CreateTeams
    \/ JoinChannel
    \/ LeaveChannel

ManagerInit == BrokerInit

ManagerSpec == ManagerInit /\ [][ManagerNext]_vars

----------------------------------------------------------------------------
(* The scheduler with a pool of agents: every agent of the pool is          *)
(* registered at the broker, tasks have different priorities and may be     *)
(* overdue.                                                                 *)

PoolPriorities == {1, 3}
PoolDueDates == {"none", "past"}

\* _check_overdue_tasks, as a function of the inboxes: for a task without
\* an assigned agent nothing is sent, and with one line 383 raises while the
\* arguments of create_message are evaluated, before send_message
CheckOverdueTasks(T, Q) == Q

PoolCreate ==
    \E by \in Creators, ag \in BrokerAgents \cup {None}, pr \in PoolPriorities,
       due \in PoolDueDates :
        DoCreateTask(by, ag, pr, due, {})

PoolAssign == \E id \in TaskIds, agent \in BrokerAgents : DoAssignTask(id, agent)

PoolNext ==
    \/ PoolCreate
    \/ PoolAssign
    \/ Complete
    \/ Fail
    \/ SchedulerCycle

PoolInit ==
    /\ tasks = <<>>
    /\ agent_workloads = <<>>
    /\ db = {}
    /\ uuid_count = 0
    /\ agent_queues = [a \in BrokerAgents |-> <<>>]
    /\ msg_count = 0
    /\ received = [a \in BrokerAgents |-> <<>>]
    /\ send_result = None
    /\ AgentInit
    /\ OtherInit

PoolSpec == PoolInit /\ [][PoolNext]_vars

----------------------------------------------------------------------------
(* The scheduler with its store.  A row of the tasks table is the Task as   *)
(* the latest INSERT or UPDATE that reached the store wrote it; parent_task *)
(* and subtasks of the Tasks in memory are kept in task_family.  The store  *)
(* works or fails for the whole of one operation: execute_query raises and  *)
(* _save_task_to_db and _update_task_in_db log the exception.               *)

StoreOutcomes == {"ok", "fails"}

StoreAgents == BrokerAgents

StoreProgress == {1, 2}

StoreStatus == {None, "in_progress"}

Batches == {1, 2}

\* parent_task of a Task without a parent
NoTask == -1

\* the scheduler together with the rest of its Tasks and the table
Stored(S, F, R) == [s |-> S, f |-> F, r |-> R]

StoredHere == Stored(Here, task_family, task_rows)

Family(parent) == [parent_task |-> parent, subtasks |-> <<>>]

\* the values of the INSERT and of the UPDATE
Row(X, id) ==
    [task |-> X.s.t[id],
     subtasks |-> X.f[id].subtasks,
     parent_task |-> X.f[id].parent_task]

\* _save_task_to_db
InsertRow(X, id, out) ==
    IF out = "fails" THEN X
    ELSE [X EXCEPT !.r = (id :> Row(X, id)) @@ X.r,
                   !.s.d = X.s.d \cup {id}]

\* _update_task_in_db for each task of ids; a task without a row updates
\* nothing
UpdateRows(X, ids, out) ==
    IF out = "fails" THEN X
    ELSE [X EXCEPT !.r = [id \in DOMAIN X.r |->
                            IF id \in ids /\ id \in DOMAIN X.s.t
                            THEN Row(X, id) ELSE X.r[id]]]

\* the tasks the unblock sweep has set to pending
Unblocked(S, S2) ==
    {x \in DOMAIN S.t :
        S.t[x].status = "blocked" /\ S2.t[x].status = "pending"}

\* assign_task writes the row on the blocked path only: on the other path
\* line 171 raises before line 181
AssignUpdates(S, id) ==
    IF id \in DOMAIN S.t /\ ~CheckDependencies(S.t, S.t[id]) THEN {id} ELSE {}

\* assign_task
StoreAssignTask(X, id, agent, out) ==
    UpdateRows([X EXCEPT !.s = AssignTask(X.s, id, agent)],
               AssignUpdates(X.s, id), out)

\* create_task lines 126-137: the Task is stored, appended to the subtasks
\* of a parent that is in the table, inserted, and assigned when an agent
\* was given
StoreCreateTask(X, id, by, ag, pr, due, deps, parent, out) ==
    LET T1 == (id :> Task(by, ag, pr, due, deps)) @@ X.s.t
        F1 == (id :> Family(parent)) @@ X.f
        F2 == IF parent # NoTask /\ parent \in DOMAIN T1
              THEN [F1 EXCEPT ![parent].subtasks = Append(@, id)]
              ELSE F1
        X1 == InsertRow([X EXCEPT !.s.t = T1, !.f = F2], id, out)
    IN  IF ag # None THEN StoreAssignTask(X1, id, ag, out) ELSE X1

\* update_task_progress
StoreUpdateTaskProgress(X, id, p, st, out) ==
    LET S2 == UpdateTaskProgress(X.s, id, p, st)
    IN  IF id \notin DOMAIN X.s.t THEN X
        ELSE UpdateRows([X EXCEPT !.s = S2], {id} \cup Unblocked(X.s, S2), out)

\* complete_task
StoreCompleteTask(X, id, out) ==
    LET S2 == CompleteTask(X.s, id)
    IN  IF id \notin DOMAIN X.s.t THEN X
        ELSE UpdateRows([X EXCEPT !.s = S2], {id} \cup Unblocked(X.s, S2), out)

\* fail_task
StoreFailTask(X, id, out) ==
    IF id \notin DOMAIN X.s.t THEN X
    ELSE UpdateRows([X EXCEPT !.s = FailTask(X.s, id)], {id}, out)

\* break_down_task: one create_task per description, with the priority of
\* the parent; ids are the ids of the new tasks
RECURSIVE BreakDownTask(_, _, _, _, _)
BreakDownTask(X, id, ids, by, out) ==
    IF id \notin DOMAIN X.s.t \/ ids = <<>> THEN X
    ELSE BreakDownTask(StoreCreateTask(X, Head(ids), by, None,
                                       X.s.t[id].priority, None, {}, id, out),
                       id, Tail(ids), by, out)

\* one pass of the loop: the Tasks that _cleanup_old_tasks deletes take
\* their parent_task and subtasks along, the rows stay
StorePass(X, old) ==
    LET S2 == SchedulerPass(X.s, old)
    IN  [X EXCEPT !.s = S2, !.f = [id \in DOMAIN S2.t |-> X.f[id]]]

\* the rows of the SELECT of _load_tasks_from_db
Selected(R) ==
    {id \in DOMAIN R : R[id].task.status \notin {"completed", "cancelled"}}

\* lines 502-506 of _load_tasks_from_db, for the rows ids in the order of
\* their insertion
RECURSIVE RebuildWorkloads(_, _, _)
RebuildWorkloads(R, ids, W) ==
    IF ids = {} THEN W
    ELSE LET id == CHOOSE x \in ids : \A y \in ids : x <= y
             W2 == IF R[id].task.assigned_agent # None
                   THEN AppendWorkload(W, R[id].task.assigned_agent, id)
                   ELSE W
         IN  RebuildWorkloads(R, ids \ {id}, W2)

\* a new TaskScheduler on the same store, after start: _load_tasks_from_db
LoadTasksFromDb(X) ==
    [X EXCEPT !.s.t = [id \in Selected(X.r) |-> X.r[id].task],
              !.s.w = RebuildWorkloads(X.r, Selected(X.r), <<>>),
              !.f = [id \in Selected(X.r) |->
                        [parent_task |-> X.r[id].parent_task,
                         subtasks |-> X.r[id].subtasks]]]

InstallStored(X) ==
    /\ Bounded(X.s)
    /\ Install(X.s)
    /\ task_family' = X.f
    /\ task_rows' = X.r

DoStoreCreateTask(by, ag, deps, parent, out) ==
    /\ uuid_count < MaxTasks
    /\ InstallStored(StoreCreateTask(StoredHere, NewTaskId(uuid_count), by, ag,
                                     2, None, deps, parent, out))
    /\ uuid_count' = uuid_count + 1
    /\ UNCHANGED <<brokerVars, agentVars, copyVars, loopVars,
                   providerVars, serialVars>>

DoStoreAssignTask(id, agent, out) ==
    /\ InstallStored(StoreAssignTask(StoredHere, id, agent, out))
    /\ UNCHANGED <<uuid_count, brokerVars, agentVars, copyVars, loopVars,
                   providerVars, serialVars>>

DoStoreUpdateTaskProgress(id, p, st, out) ==
    /\ InstallStored(StoreUpdateTaskProgress(StoredHere, id, p, st, out))
    /\ UNCHANGED <<uuid_count, brokerVars, agentVars, copyVars, loopVars,
                   providerVars, serialVars>>

DoStoreCompleteTask(id, out) ==
    /\ InstallStored(StoreCompleteTask(StoredHere, id, out))
    /\ UNCHANGED <<uuid_count, brokerVars, agentVars, copyVars, loopVars,
                   providerVars, serialVars>>

DoStoreFailTask(id, out) ==
    /\ InstallStored(StoreFailTask(StoredHere, id, out))
    /\ UNCHANGED <<uuid_count, brokerVars, agentVars, copyVars, loopVars,
                   providerVars, serialVars>>

DoBreakDownTask(id, n, by, out) ==
    /\ uuid_count + n <= MaxTasks
    /\ InstallStored(BreakDownTask(StoredHere, id,
                                   [i \in 1..n |-> NewTaskId(uuid_count) + i - 1],
                                   by, out))
    /\ uuid_count' = IF id \in DOMAIN tasks THEN uuid_count + n ELSE uuid_count
    /\ UNCHANGED <<brokerVars, agentVars, copyVars, loopVars,
                   providerVars, serialVars>>

DoStorePass(old) ==
    /\ InstallStored(StorePass(StoredHere, old))
    /\ UNCHANGED <<uuid_count, brokerVars, agentVars, copyVars, loopVars,
                   providerVars, serialVars>>

DoRestart ==
    /\ InstallStored(LoadTasksFromDb(StoredHere))
    /\ UNCHANGED <<uuid_count, brokerVars, agentVars, copyVars, loopVars,
                   providerVars, serialVars>>

StoreDeps == {deps \in SUBSET (1..uuid_count) : Cardinality(deps) <= MaxDeps}

StoreParents == (1..uuid_count) \cup {NoTask}

StoreCreate ==
    \E by \in Creators, ag \in Agents \cup {None}, deps \in StoreDeps,
       parent \in StoreParents :
        DoStoreCreateTask(by, ag, deps, parent, "ok")

StoreAssign ==
    \E id \in TaskIds, agent \in StoreAgents : DoStoreAssignTask(id, agent, "ok")

StoreComplete == \E id \in TaskIds : DoStoreCompleteTask(id, "ok")

StoreBreakDown ==
    \E id \in TaskIds, n \in Batches, by \in Creators :
        DoBreakDownTask(id, n, by, "ok")

StoreCycle == \E old \in BOOLEAN : DoStorePass(old)

StoreNext ==
    \/ StoreCreate
    \/ StoreAssign
    \/ StoreComplete
    \/ StoreBreakDown
    \/ StoreCycle
    \/ DoRestart

StoreSpec == PoolInit /\ [][StoreNext]_vars

(* The same operations on a store that may fail *)

FaultCreate ==
    \E by \in Creators, ag \in Agents \cup {None}, out \in StoreOutcomes :
        DoStoreCreateTask(by, ag, {}, NoTask, out)

FaultAssign ==
    \E id \in TaskIds, agent \in Agents, out \in StoreOutcomes :
        DoStoreAssignTask(id, agent, out)

FaultUpdateProgress ==
    \E id \in TaskIds, p \in StoreProgress, st \in StoreStatus,
       out \in StoreOutcomes :
        DoStoreUpdateTaskProgress(id, p, st, out)

FaultComplete ==
    \E id \in TaskIds, out \in StoreOutcomes : DoStoreCompleteTask(id, out)

FaultFail ==
    \E id \in TaskIds, out \in StoreOutcomes : DoStoreFailTask(id, out)

FaultNext ==
    \/ FaultCreate
    \/ FaultAssign
    \/ FaultUpdateProgress
    \/ FaultComplete
    \/ FaultFail

FaultSpec == PoolInit /\ [][FaultNext]_vars

----------------------------------------------------------------------------
(* The Message with all its fields, and what a broadcast makes of it *)

MessagePriorities == {1, 2, 3}
Contents == {"c1", "c2"}
Metadata == {"none", "m1"}
Conversations == {"none", "v1"}
FullTypes == {"broadcast", "notification"}
FullRecipients == {"ALL", "a2"}

\* the dataclass Message
FullMessage(id, sender, recipient, type, content, metadata, timestamp, conversation_id, requires_response, priority) ==
    [id |-> id, sender |-> sender, recipient |-> recipient,
     message_type |-> type, content |-> content, metadata |-> metadata,
     timestamp |-> timestamp, conversation_id |-> conversation_id,
     requires_response |-> requires_response, priority |-> priority]

\* create_message, with n ids issued before it; the time is the count of ids
CreateFullMessage(n, sender, recipient, content, type, metadata, conversation_id, requires_response, priority) ==
    FullMessage(n + 1, sender, recipient, type, content, metadata, n + 1,
                conversation_id, requires_response, priority)

\* lines 124-133 of _broadcast_message: the copy for agent a.  The
\* constructor is given neither requires_response nor priority, which take
\* the defaults of the dataclass.
BroadcastCopy(m, id, a) ==
    FullMessage(id, m.sender, a, m.message_type, m.content, m.metadata,
                m.timestamp, m.conversation_id, FALSE, 1)

\* send_message: what each inbox of Q receives
SendFullMessage(Q, m, n) ==
    IF m.recipient = "ALL" \/ m.message_type = "broadcast"
    THEN LET targets == BroadcastTargets(Q, m.sender)
         IN  [a \in targets |-> BroadcastCopy(m, n + CopyIndex(a, targets), a)]
    ELSE IF m.recipient \in DOMAIN Q THEN (m.recipient :> m) ELSE <<>>

DoCreateFullMessage(sender, recipient, content, type, metadata, conversation_id, requires_response, priority) ==
    /\ full_message' = CreateFullMessage(0, sender, recipient, content, type,
                                         metadata, conversation_id,
                                         requires_response, priority)
    /\ full_copies' = <<>>
    /\ UNCHANGED <<schedulerVars, brokerVars, agentVars, storeVars, loopVars,
                   providerVars, serialVars>>

DoSendFullMessage ==
    /\ full_message.id # 0
    /\ full_copies' = SendFullMessage(agent_queues, full_message, 1)
    /\ UNCHANGED <<schedulerVars, brokerVars, agentVars, storeVars, loopVars,
                   providerVars, serialVars, full_message>>

CreateFull ==
    \E sender \in Senders, recipient \in FullRecipients, content \in Contents,
       type \in FullTypes, metadata \in Metadata,
       conversation_id \in Conversations, requires_response \in BOOLEAN,
       priority \in MessagePriorities :
        DoCreateFullMessage(sender, recipient, content, type, metadata,
                            conversation_id, requires_response, priority)

CopyNext ==
    \/ CreateFull
    \/ DoSendFullMessage

CopySpec == PoolInit /\ [][CopyNext]_vars

----------------------------------------------------------------------------
(* start, stop and the instances of _scheduler_loop.  An instance is        *)
(* created by start, looks at _running when it first runs and each time     *)
(* its sleep ends, makes a pass and sleeps, or returns.                     *)

\* _load_tasks_from_db on a scheduler that already holds tasks
StartLoad(X) ==
    [X EXCEPT !.s.t = [id \in DOMAIN X.s.t \cup Selected(X.r) |->
                          IF id \in Selected(X.r) THEN X.r[id].task
                          ELSE X.s.t[id]],
              !.s.w = RebuildWorkloads(X.r, Selected(X.r), X.s.w),
              !.f = [id \in DOMAIN X.f \cup Selected(X.r) |->
                        IF id \in Selected(X.r)
                        THEN [parent_task |-> X.r[id].parent_task,
                              subtasks |-> X.r[id].subtasks]
                        ELSE X.f[id]]]

\* line 350: while self._running
LoopStep(r) == IF r THEN "sleeping" ELSE "exited"

Live(L) == {i \in 1..Len(L) : L[i] \in {"created", "sleeping"}}

\* start
DoStart ==
    /\ Len(loops) < MaxLoops
    /\ running' = TRUE
    /\ InstallStored(StartLoad(StoredHere))
    /\ loops' = Append(loops, "created")
    /\ UNCHANGED <<uuid_count, brokerVars, agentVars, copyVars, providerVars,
                   serialVars, cycle_count>>

\* stop
DoStop ==
    /\ running' = FALSE
    /\ UNCHANGED <<schedulerVars, brokerVars, agentVars, storeVars, copyVars,
                   providerVars, serialVars, loops, cycle_count>>

\* instance i runs: for the first time, or at the end of its sleep
DoLoopRun(i, old) ==
    /\ i \in Live(loops)
    /\ running => cycle_count < MaxCycles
    /\ loops' = [loops EXCEPT ![i] = LoopStep(running)]
    /\ cycle_count' = IF running THEN cycle_count + 1 ELSE cycle_count
    /\ InstallStored(IF running THEN StorePass(StoredHere, old) ELSE StoredHere)
    /\ UNCHANGED <<uuid_count, brokerVars, agentVars, copyVars, providerVars,
                   serialVars, running>>

LoopRun == \E i \in 1..MaxLoops, old \in BOOLEAN : DoLoopRun(i, old)

LoopNext ==
    \/ DoStart
    \/ DoStop
    \/ LoopRun

LoopSpec == PoolInit /\ [][LoopNext]_vars

----------------------------------------------------------------------------
(* LLMProvider.get_model and generate, called by threads.  A step of a      *)
(* thread is what it does between two points where another thread can run.  *)

CallKinds == {"get_model", "generate"}

LoadOutcomes == {"returns", "raises"}

\* line 126: model_id in self.models_config
Configured(m) == m \in DOMAIN ModelsConfig

\* lines 134-139: the providers that have a loader
Supported(m) == ModelsConfig[m] \in {"huggingface", "llama-cpp"}

\* a with statement that enters without the lock
LockIgnored(L, m) == TRUE

\* line 132: the with statement enters when the lock of the model is free
LockFree(L, m) == L[m] = None

\* the positions inside the with statement
Inside == {"locked", "loading", "release", "failing"}

providerRest ==
    <<schedulerVars, brokerVars, agentVars, storeVars, copyVars, loopVars,
      serialVars>>

\* the call: an unknown model id raises ValueError at line 127
DoGetModel(t, kind, m) ==
    /\ callers[t].pc = "idle"
    /\ callers' = [callers EXCEPT ![t] =
                      IF Configured(m)
                      THEN [pc |-> "acquire", kind |-> kind, model |-> m,
                            result |-> None, loaded |-> FALSE]
                      ELSE [pc |-> "idle", kind |-> kind, model |-> m,
                            result |-> "ValueError", loaded |-> FALSE]]
    /\ UNCHANGED <<providerRest, loaded_models, model_locks, load_counts>>

DoAcquire(t) ==
    /\ callers[t].pc = "acquire"
    /\ LockFree(model_locks, callers[t].model)
    /\ model_locks' = [model_locks EXCEPT ![callers[t].model] = t]
    /\ callers' = [callers EXCEPT ![t].pc = "locked"]
    /\ UNCHANGED <<providerRest, loaded_models, load_counts>>

\* line 133: model_id not in self.loaded_models
DoCheckLoaded(t) ==
    /\ callers[t].pc = "locked"
    /\ callers' = [callers EXCEPT ![t].pc =
                      IF callers[t].model \in loaded_models THEN "release"
                      ELSE "loading"]
    /\ UNCHANGED <<providerRest, loaded_models, model_locks, load_counts>>

\* lines 134-139: the loader stores the model as its last statement, or it
\* raises; a provider without a loader raises ValueError
DoLoad(t, outcome) ==
    /\ callers[t].pc = "loading"
    /\ IF Supported(callers[t].model) /\ outcome = "returns"
       THEN /\ load_counts[callers[t].model] < MaxLoads
            /\ loaded_models' = loaded_models \cup {callers[t].model}
            /\ load_counts' = [load_counts EXCEPT ![callers[t].model] = @ + 1]
            /\ callers' = [callers EXCEPT ![t].pc = "release", ![t].loaded = TRUE]
       ELSE /\ callers' = [callers EXCEPT ![t].pc = "failing"]
            /\ UNCHANGED <<loaded_models, load_counts>>
    /\ UNCHANGED <<providerRest, model_locks>>

\* the end of the with statement, reached normally or by the exception
DoRelease(t) ==
    /\ callers[t].pc \in {"release", "failing"}
    /\ model_locks' = [model_locks EXCEPT ![callers[t].model] = None]
    /\ callers' = [callers EXCEPT ![t] =
                      IF callers[t].pc = "release"
                      THEN [@ EXCEPT !.pc = "return"]
                      ELSE [@ EXCEPT !.pc = "idle", !.result = "LoadError"]]
    /\ UNCHANGED <<providerRest, loaded_models, load_counts>>

\* line 142: return self.loaded_models[model_id]; generate goes on to call
\* the model
DoReturn(t) ==
    /\ callers[t].pc = "return"
    /\ callers' = [callers EXCEPT ![t] =
                      IF callers[t].model \notin loaded_models
                      THEN [@ EXCEPT !.pc = "idle", !.result = "KeyError"]
                      ELSE IF callers[t].kind = "generate"
                      THEN [@ EXCEPT !.pc = "generating"]
                      ELSE [@ EXCEPT !.pc = "idle", !.result = callers[t].model]]
    /\ UNCHANGED <<providerRest, loaded_models, model_locks, load_counts>>

\* lines 155-168 of generate: the call of the model
DoGenerate(t) ==
    /\ callers[t].pc = "generating"
    /\ callers' = [callers EXCEPT ![t].pc = "idle", ![t].result = "text"]
    /\ UNCHANGED <<providerRest, loaded_models, model_locks, load_counts>>

GetModel ==
    \E t \in Threads, kind \in CallKinds, m \in ModelIds : DoGetModel(t, kind, m)

Acquire == \E t \in Threads : DoAcquire(t)

CheckLoaded == \E t \in Threads : DoCheckLoaded(t)

Load == \E t \in Threads, outcome \in LoadOutcomes : DoLoad(t, outcome)

Release == \E t \in Threads : DoRelease(t)

Return == \E t \in Threads : DoReturn(t)

Generate == \E t \in Threads : DoGenerate(t)

ProviderNext ==
    \/ GetModel
    \/ Acquire
    \/ CheckLoaded
    \/ Load
    \/ Release
    \/ Return
    \/ Generate

ProviderSpec == PoolInit /\ [][ProviderNext]_vars

----------------------------------------------------------------------------
(* The coroutines that call the scheduler on the one event loop: request    *)
(* handlers, agent workers and _scheduler_loop.  A coroutine runs from one  *)
(* await to the next; owner is the coroutine the event loop is running.     *)

SerialOps == {"assign", "complete", "create"}

SerialAgents == {"a1", "a2"}

SerialDeps == {{}, {1}}

\* the positions of a coroutine between two operations
Resting == {"idle", "sleeping"}

\* an event loop where the database calls wait for their answer
SuspendsAtDb(point) == point \in {"sleep", "update_db", "save_db"}

\* does the await at this point hand control to the event loop: only
\* asyncio.sleep (lines 361, 365) does; the other awaits call coroutines of
\* the scheduler that run synchronous code (execute_query) to their end
Suspends(point) == point = "sleep"

Segment(S, pc, point) == [s |-> S, pc |-> pc, point |-> point]

\* the code of coroutine record r from its position to the next await, the
\* return or the exception
RunSegment(S, r) ==
    LET id == r.id
        has == id \in DOMAIN S.t
    IN  CASE r.pc = "a_enter" ->
                IF has THEN Segment(S, "a_check", "check_dependencies")
                ELSE Segment(S, "idle", "return")
          [] r.pc = "a_check" ->
                IF ~has THEN Segment(S, "idle", "return")
                ELSE IF ~CheckDependencies(S.t, S.t[id])
                THEN Segment([S EXCEPT !.t[id].status = "blocked"],
                             "a_update", "update_db")
                ELSE Segment([S EXCEPT !.t[id].assigned_agent = r.agent,
                                       !.t[id].status = "assigned",
                                       !.w = AppendWorkload(S.w, r.agent, id)],
                             "idle", "raise")
          [] r.pc = "a_update" -> Segment(S, "idle", "return")
          [] r.pc = "c_enter" ->
                IF has
                THEN Segment([S EXCEPT !.t[id].status = "completed",
                                       !.t[id].progress = Scale,
                                       !.w = RemoveFromWorkload(
                                                 S.w, S.t[id].assigned_agent, id)],
                             "c_notify", "update_db")
                ELSE Segment(S, "idle", "return")
          [] r.pc = "c_notify" ->
                IF ~has THEN Segment(S, "idle", "return")
                ELSE IF S.t[id].created_by # S.t[id].assigned_agent
                THEN Segment(S, "idle", "raise")
                ELSE Segment(CheckDependentTasks(S, id), "idle", "return")
          [] r.pc = "k_enter" ->
                Segment([S EXCEPT !.t = (id :> Task("a1", None, 2, None, r.deps))
                                         @@ S.t],
                        "k_save", "save_db")
          [] r.pc = "k_save" -> Segment(SaveTaskToDb(S, id), "idle", "return")
          [] r.pc = "p_enter" ->
                IF OverdueRaises(S.t) THEN Segment(S, "sleeping", "sleep")
                ELSE Segment(S, "p_assign", "get_available_tasks")
          [] r.pc = "p_assign" ->
                IF AutoAssigns(S)
                THEN Segment(AutoAssignTasks(S), "sleeping", "sleep")
                ELSE Segment(S, "p_cleanup", "cleanup_old_tasks")
          [] r.pc = "p_cleanup" ->
                Segment(CleanupOldTasks(S, r.old), "sleeping", "sleep")

\* the operation of coroutine record r as one call on the tables S
WholeOperation(S, r) ==
    CASE r.op = "assign" -> AssignTask(S, r.id, r.agent)
      [] r.op = "complete" -> CompleteTask(S, r.id)
      [] r.op = "create" -> CreateTask(S, r.id, "a1", None, 2, None, r.deps)
      [] r.op = "pass" -> SchedulerPass(S, r.old)

serialRest ==
    <<brokerVars, agentVars, storeVars, copyVars, loopVars, providerVars>>

\* a handler or a worker is scheduled and calls an operation
DoCall(c, op, id, agent, deps) ==
    /\ owner = None
    /\ c # "loop"
    /\ coroutines[c].pc = "idle"
    /\ op = "create" => uuid_count < MaxTasks /\ id = NewTaskId(uuid_count)
    /\ op # "create" => deps = {}
    /\ op # "assign" => agent = None
    /\ op = "assign" => agent # None
    /\ coroutines' = [coroutines EXCEPT ![c] =
            [pc |-> CASE op = "assign" -> "a_enter"
                      [] op = "complete" -> "c_enter"
                      [] op = "create" -> "k_enter",
             op |-> op, id |-> id, agent |-> agent, deps |-> deps,
             old |-> FALSE, start |-> Here]]
    /\ owner' = c
    /\ uuid_count' = IF op = "create" THEN uuid_count + 1 ELSE uuid_count
    /\ UNCHANGED <<tasks, agent_workloads, db, serialRest>>

\* _scheduler_loop is created by start, or wakes from its sleep, and begins
\* a pass
DoWake(old) ==
    /\ owner = None
    /\ coroutines["loop"].pc \in Resting
    /\ coroutines' = [coroutines EXCEPT !["loop"] =
            [pc |-> "p_enter", op |-> "pass", id |-> 0, agent |-> None,
             deps |-> {}, old |-> old, start |-> Here]]
    /\ owner' = "loop"
    /\ UNCHANGED <<schedulerVars, serialRest>>

\* the event loop runs coroutine c to its next await; c keeps the event loop
\* unless the await suspends it or the operation has ended
DoStep(c) ==
    /\ coroutines[c].pc \notin Resting
    /\ owner = c \/ owner = None
    /\ LET g == RunSegment(Here, coroutines[c])
       IN  /\ Bounded(g.s)
           /\ Install(g.s)
           /\ coroutines' = [coroutines EXCEPT ![c] =
                   IF g.pc \in Resting
                   THEN [IdleCoroutine EXCEPT !.pc = g.pc]
                   ELSE [@ EXCEPT !.pc = g.pc]]
           /\ owner' = IF g.pc \in Resting \/ Suspends(g.point) THEN None
                       ELSE c
    /\ UNCHANGED <<uuid_count, serialRest>>

Call ==
    \E c \in Coroutines, op \in SerialOps, id \in TaskIds,
       agent \in SerialAgents \cup {None}, deps \in SerialDeps :
        DoCall(c, op, id, agent, deps)

Wake == \E old \in BOOLEAN : DoWake(old)

Step == \E c \in Coroutines : DoStep(c)

SerialNext ==
    \/ Call
    \/ Wake
    \/ Step

SerialSpec == PoolInit /\ [][SerialNext]_vars

----------------------------------------------------------------------------
(* Helpers of the properties *)

\* the concurrent tasks of an agent: assigned to it and not finished
Concurrent(T, a) ==
    Cardinality({id \in DOMAIN T :
                    T[id].assigned_agent = a /\ T[id].status \notin Terminal})

\* the tasks a pass has given to an agent
NewlyAssigned(S, S2) ==
    {id \in DOMAIN S.t \cap DOMAIN S2.t :
        /\ S2.t[id].status = "assigned"
        /\ \/ S.t[id].status # "assigned"
           \/ S.t[id].assigned_agent # S2.t[id].assigned_agent}

\* the scheduler after n passes of the loop with no other call in between
RECURSIVE Cycles(_, _)
Cycles(S, n) == IF n = 0 THEN S ELSE Cycles(SchedulerPass(S, FALSE), n - 1)

\* overdue, not finished, with an assigned agent that has an inbox
OverdueFor(T, Q, a) ==
    {id \in DOMAIN T :
        /\ T[id].due = "past"
        /\ T[id].status \notin Terminal
        /\ T[id].assigned_agent = a
        /\ a \in DOMAIN Q}


DepsOf(T, id) == IF id \in DOMAIN T THEN T[id].dependencies ELSE {}

RECURSIVE DepClosure(_, _, _)
DepClosure(T, ids, n) ==
    IF n = 0 THEN ids
    ELSE DepClosure(T, ids \cup UNION {DepsOf(T, x) : x \in ids}, n - 1)

\* no task reaches itself along dependencies
Acyclic(T) ==
    \A id \in DOMAIN T :
        id \notin DepClosure(T, DepsOf(T, id), Cardinality(DOMAIN T))

DepsCompleted(T, id) ==
    \A dep \in T[id].dependencies :
        dep \in DOMAIN T /\ T[dep].status = "completed"

TaskAssignments(Q, a, id) ==
    IF a \in DOMAIN Q
    THEN Cardinality({i \in 1..Len(Q[a]) :
                         /\ Q[a][i].message_type = "task_assignment"
                         /\ Q[a][i].task_id = id})
    ELSE 0

\* the state machine of the scheduler's contract
TaskCompletions(Q, a, id) ==
    IF a \in DOMAIN Q
    THEN Cardinality({i \in 1..Len(Q[a]) :
                         /\ Q[a][i].message_type = "task_completion"
                         /\ Q[a][i].task_id = id})
    ELSE 0

Elems(s) == {s[i] : i \in 1..Len(s)}

Last(s) == s[Len(s)]

\* priority descending, then oldest first: ids are issued in creation order
SpecOrder(T, s) ==
    \A i, j \in 1..Len(s) :
        i < j => \/ T[s[i]].priority > T[s[j]].priority
                 \/ (T[s[i]].priority = T[s[j]].priority /\ s[i] < s[j])

Inbox(Q, a) == IF a \in DOMAIN Q THEN Q[a] ELSE <<>>

FromSender(s, sender) == SelectSeq(s, LAMBDA m : m.sender = sender)

\* ids are issued at each send, so a larger id is a later send
SendOrder(s) == \A i, j \in 1..Len(s) : i < j => s[i].id < s[j].id

IsBroadcast(recipient, type) == recipient = "ALL" \/ type = "broadcast"

ToolCall(t) == [type |-> "tool_call", tool |-> t]

PlainText == [type |-> "final_answer", tool |-> None]

ModelFailure == [type |-> "failure", tool |-> None]

\* the tools the agent may use: all registered ones when no name is given
Permitted(allowed) ==
    IF allowed.given /\ allowed.names # {}
    THEN allowed.names \cap Registered
    ELSE Registered

Cap(k) == IF k > 0 THEN k ELSE 0

SpecifiedTransition(T, id, from, to) ==
    \/ from = to
    \/ from = "assigned" /\ to = "in_progress"
    \/ from = "pending" /\ to = "blocked" /\ ~DepsCompleted(T, id)
    \/ from = "blocked" /\ to = "pending"
    \/ from \notin Terminal /\ to = "assigned" /\ DepsCompleted(T, id)
    \/ from \notin Terminal /\ to \in Terminal

----------------------------------------------------------------------------
(* The claims *)

\* C1: in every reachable state the dependency graph of the task table is
\* acyclic (and every id in the table has its row).
C1_DependencyGraphAcyclic ==
    Acyclic(tasks) /\ DOMAIN tasks \subseteq db

\* C1, witness: a task depends on another task of the table
C1_Witness ==
    \E id \in DOMAIN tasks : tasks[id].dependencies \cap DOMAIN tasks # {}

\* C2: create_task with a dependency that is not the id of an existing task
\* creates nothing and persists nothing.
C2_MissingDependencyRejected ==
    [][\A by \in Creators, ag \in AgentIds \cup {None}, pr \in Priorities,
          due \in DueDates, deps \in DepInputs :
           (DoCreateTask(by, ag, pr, due, deps) /\ ~(deps \subseteq DOMAIN tasks))
               => (tasks' = tasks /\ db' = db)]_vars

\* C3: once a task is completed, failed or cancelled no step changes its
\* status, assigned_agent or progress.
C3_TerminalAbsorbing ==
    [][\A id \in DOMAIN tasks :
           (tasks[id].status \in Terminal /\ id \in DOMAIN tasks')
               => /\ tasks'[id].status = tasks[id].status
                  /\ tasks'[id].assigned_agent = tasks[id].assigned_agent
                  /\ tasks'[id].progress = tasks[id].progress]_vars

\* C4: every change of a task's status is a transition of the specified
\* state machine.
C4_OnlySpecifiedTransitions ==
    [][\A id \in DOMAIN tasks \cap DOMAIN tasks' :
           SpecifiedTransition(tasks, id, tasks[id].status, tasks'[id].status)]_vars

\* C5: a task is in an agent's workload exactly if it is assigned to that
\* agent and its status is assigned or in_progress.
C5_WorkloadAccounting ==
    \A a \in AgentIds, id \in DOMAIN tasks :
        (id \in GetAgentWorkload(Here, a))
            <=> (/\ tasks[id].assigned_agent = a
                 /\ tasks[id].status \in {"assigned", "in_progress"})

\* C6: progress is 1.0 exactly if the status is completed.
C6_ProgressOneIffCompleted ==
    \A id \in DOMAIN tasks :
        (tasks[id].progress = Scale) <=> (tasks[id].status = "completed")

\* C7: a task that is assigned or in_progress has an assigned agent, and that
\* agent exists.
C7_AssignedAgentExists ==
    \A id \in DOMAIN tasks :
        tasks[id].status \in {"assigned", "in_progress"}
            => tasks[id].assigned_agent \in Agents

\* C8: a blocked task has at least one dependency that is not completed.
C8_BlockedHasOpenDependency ==
    \A id \in DOMAIN tasks :
        tasks[id].status = "blocked" => ~DepsCompleted(tasks, id)

\* C9: a blocked task that has dependencies, all of them completed, is
\* pending or assigned after one pass of the scheduler loop, whatever the
\* age of the finished tasks at that pass.
C9_UnblockWithinOneCycle ==
    \A id \in DOMAIN tasks, old \in BOOLEAN :
        (/\ tasks[id].status = "blocked"
         /\ tasks[id].dependencies # {}
         /\ DepsCompleted(tasks, id))
            => /\ id \in DOMAIN SchedulerPass(Here, old).t
               /\ SchedulerPass(Here, old).t[id].status \in {"pending", "assigned"}

\* C10: the step in which the last open dependency of a blocked task with an
\* assigned agent completes leaves the task assigned to that agent and puts
\* one more task_assignment for it into the agent's inbox.
C10_UnblockReassignsSameAgent ==
    [][\A id \in DOMAIN tasks \cap DOMAIN tasks' :
           (/\ tasks[id].status = "blocked"
            /\ tasks[id].assigned_agent \in Agents
            /\ ~DepsCompleted(tasks, id)
            /\ DepsCompleted(tasks', id))
               => /\ tasks'[id].status = "assigned"
                  /\ tasks'[id].assigned_agent = tasks[id].assigned_agent
                  /\ TaskAssignments(agent_queues', tasks[id].assigned_agent, id)
                       = TaskAssignments(agent_queues, tasks[id].assigned_agent, id) + 1]_vars

\* C11: assign_task on a task that is not terminal and has every dependency
\* completed, for a registered agent, returns success, makes the task
\* assigned to that agent and puts exactly one more task_assignment message
\* for the task at the end of the agent's inbox.
C11_AssignNotifiesAgent ==
    [][\A id \in DOMAIN tasks, agent \in DOMAIN agent_queues :
           (/\ tasks[id].status \notin Terminal
            /\ DepsCompleted(tasks, id)
            /\ DoAssignTask(id, agent))
               => /\ AssignTaskResult(Here, id, agent) = "true"
                  /\ tasks'[id].status = "assigned"
                  /\ tasks'[id].assigned_agent = agent
                  /\ TaskAssignments(agent_queues', agent, id)
                       = TaskAssignments(agent_queues, agent, id) + 1
                  /\ Len(agent_queues'[agent]) = Len(agent_queues[agent]) + 1]_vars

\* C12: assign_task on a pending task that has a dependency which is not
\* completed returns failure and changes nothing but the status of that
\* task, which becomes blocked.
C12_UnmetDependencyOnlyBlocks ==
    [][\A id \in DOMAIN tasks, agent \in AgentIds :
           (/\ tasks[id].status = "pending"
            /\ ~DepsCompleted(tasks, id)
            /\ DoAssignTask(id, agent))
               => /\ AssignTaskResult(Here, id, agent) = "false"
                  /\ tasks' = [tasks EXCEPT ![id].status = "blocked"]
                  /\ agent_workloads' = agent_workloads
                  /\ agent_queues' = agent_queues
                  /\ db' = db]_vars

C12_Witness ==
    \E id \in DOMAIN tasks :
        /\ tasks[id].status = "blocked"
        /\ tasks[id].dependencies # {}
        /\ ~DepsCompleted(tasks, id)
        /\ tasks[id].assigned_agent = None
        /\ agent_workloads = <<>>

\* C13: complete_task on a task whose creator is a registered agent puts
\* exactly one more task_completion message for the task on the creator's
\* inbox when the creator is not the assigned agent, and changes no inbox
\* when it is.
C13_CompletionFanOut ==
    [][\A id \in DOMAIN tasks :
           (DoCompleteTask(id) /\ tasks[id].created_by \in DOMAIN agent_queues)
               => IF tasks[id].created_by # tasks[id].assigned_agent
                  THEN /\ TaskCompletions(agent_queues', tasks[id].created_by, id)
                            = TaskCompletions(agent_queues, tasks[id].created_by, id) + 1
                       /\ Len(agent_queues'[tasks[id].created_by])
                            = Len(agent_queues[tasks[id].created_by]) + 1
                  ELSE agent_queues' = agent_queues]_vars

\* C14: whenever update_task_progress takes a task that is not completed
\* to completed, by a progress of 1.0 or more or by an explicit status, it
\* leaves the scheduler as complete_task on the same task would.
C14_ProgressCompletionIsCompleteTask ==
    \A id \in DOMAIN tasks, p \in ProgressInputs, st \in {None, "completed"} :
        (/\ tasks[id].status # "completed"
         /\ UpdateTaskProgress(Here, id, p, st).t[id].status = "completed")
            => UpdateTaskProgress(Here, id, p, st) = CompleteTask(Here, id)

\* C15: update_task_progress never lowers the stored progress of a task,
\* an assignment that succeeds leaves the task with progress 0, and the
\* stored progress always lies between 0 and 1.
C15_ProgressMonotonePerSession ==
    [][\A id \in DOMAIN tasks \cap DOMAIN tasks' :
           /\ \A p \in ProgressInputs, st \in TaskStatus \cup {None} :
                  DoUpdateTaskProgress(id, p, st)
                      => tasks'[id].progress >= tasks[id].progress
           /\ \A agent \in AgentIds :
                  (DoAssignTask(id, agent) /\ tasks'[id].status = "assigned")
                      => tasks'[id].progress = 0
           /\ tasks'[id].progress \in 0..Scale]_vars

\* C16: whatever agent asks, get_available_tasks lists the tasks by
\* priority, highest first, and within one priority oldest first.
C16_AvailableOrder ==
    \A agent \in AgentIds \cup {None} :
        SpecOrder(tasks, GetAvailableTasks(tasks, agent))

\* C17: get_available_tasks lists, each once, exactly the tasks that are
\* pending, have every dependency present and completed and, when an
\* agent is given, are unassigned or assigned to that agent.
C17_AvailableExactly ==
    \A agent \in AgentIds \cup {None} :
        LET s == GetAvailableTasks(tasks, agent)
            ready == {id \in DOMAIN tasks :
                         /\ tasks[id].status = "pending"
                         /\ DepsCompleted(tasks, id)
                         /\ \/ agent = None
                            \/ tasks[id].assigned_agent \in {None, agent}}
        IN Elems(s) = ready /\ Len(s) = Cardinality(ready)

C17_Witness ==
    \E id, other \in DOMAIN tasks :
        /\ id \in Elems(GetAvailableTasks(tasks, "a1"))
        /\ tasks[other].status = "pending"
        /\ ~DepsCompleted(tasks, other)
        /\ other \notin Elems(GetAvailableTasks(tasks, "a1"))

\* C18: for every sender and every agent, the messages of that sender that
\* the agent has received, followed by those still in its inbox, are in
\* the order of the sender's send calls.
C18_FifoPerPair ==
    \A a \in BrokerAgents, sender \in Senders :
        SendOrder(FromSender(received[a] \o Inbox(agent_queues, a), sender))

C18_Witness ==
    \E a \in BrokerAgents, s1, s2 \in Senders :
        /\ s1 # s2
        /\ Len(received[a]) = 3
        /\ Len(FromSender(received[a], s1)) = 2
        /\ Len(FromSender(received[a], s2)) = 1
        /\ \E i, j \in 1..3 : /\ received[a][i].message_type = "broadcast"
                               /\ received[a][j].message_type = "request"

\* C19: a send to "ALL" or of type broadcast appends one copy to the inbox
\* of every registered agent but the sender, leaves the sender's inbox as
\* it was, and gives the copies ids that differ from the id of the
\* original, from every earlier id and from one another.
C19_BroadcastFanOut ==
    [][\A sender \in Senders, recipient \in Recipients, type \in MessageTypes :
           (DoSendMessage(sender, recipient, type) /\ IsBroadcast(recipient, type))
               => /\ DOMAIN agent_queues' = DOMAIN agent_queues
                  /\ \A a \in DOMAIN agent_queues :
                         IF a = sender
                         THEN agent_queues'[a] = agent_queues[a]
                         ELSE /\ Len(agent_queues'[a]) = Len(agent_queues[a]) + 1
                              /\ SubSeq(agent_queues'[a], 1, Len(agent_queues[a]))
                                   = agent_queues[a]
                              /\ Last(agent_queues'[a]).sender = sender
                              /\ Last(agent_queues'[a]).recipient = a
                              /\ Last(agent_queues'[a]).message_type = type
                              /\ Last(agent_queues'[a]).id > msg_count + 1
                  /\ \A a, b \in DOMAIN agent_queues \ {sender} :
                         a # b => Last(agent_queues'[a]).id # Last(agent_queues'[b]).id]_vars

C19_Witness ==
    /\ DOMAIN agent_queues = BrokerAgents
    /\ Len(agent_queues["a1"]) = 1
    /\ Len(agent_queues["a2"]) = 2
    /\ agent_queues["a1"][1].sender = "u"
    /\ agent_queues["a2"][1].sender = "u"
    /\ agent_queues["a1"][1].id # agent_queues["a2"][1].id
    /\ agent_queues["a2"][2].sender = "a1"
    /\ received = [a \in BrokerAgents |-> <<>>]
    /\ send_result = "true"

\* C20: send_message returns success exactly when some inbox got the
\* message; a direct send to an agent that is not registered returns
\* failure and changes no inbox, and so does a broadcast when no agent
\* other than the sender is registered.
C20_SendSuccessIffDelivered ==
    [][\A sender \in Senders, recipient \in Recipients, type \in MessageTypes :
           DoSendMessage(sender, recipient, type)
               => /\ (send_result' = "true")
                       <=> (\E a \in DOMAIN agent_queues :
                               agent_queues'[a] # agent_queues[a])
                  /\ (~IsBroadcast(recipient, type) /\ recipient \notin DOMAIN agent_queues)
                         => (send_result' = "false" /\ agent_queues' = agent_queues)
                  /\ (IsBroadcast(recipient, type) /\ DOMAIN agent_queues \ {sender} = {})
                         => (send_result' = "false" /\ agent_queues' = agent_queues)]_vars

C20_Witness ==
    /\ send_result = "false"
    /\ "a2" \notin DOMAIN agent_queues
    /\ received["a2"] # <<>>
    /\ "a1" \in DOMAIN agent_queues
    /\ agent_queues["a1"] = <<>>

\* C21: think makes at most k model calls; when every model call returns
\* a response it ends by returning a string, the final answer or the
\* fallback; and when all k responses were tool calls it returns the
\* fallback after exactly k calls.
C21_IterationCapSafety ==
    /\ think_run.calls <= Cap(think_run.k)
    /\ think_run.i <= Cap(think_run.k)
    /\ think_run.pc = "raised" => think_run.raised = "GenerationFailure"
    /\ think_run.pc = "done" => think_run.result \in {"final_answer", Fallback}
    /\ (think_run.pc = "done" /\ think_run.i = Cap(think_run.k)
          /\ Len(think_run.history) = think_run.calls)
            => (think_run.result = Fallback /\ think_run.calls = Cap(think_run.k))

\* C22: the error of a tool never ends think: when the execute of an
\* available tool raises, the turn appends an error observation for the
\* tool to the history and the loop goes on, so that a plain-text response
\* in the next turn is returned as the final answer.
C22_ToolIsolation ==
    /\ think_run.raised # "ToolError"
    /\ \A t \in ToolNames :
           (/\ think_run.pc = "loop"
            /\ think_run.i < think_run.k
            /\ t \in Permitted(think_run.allowed))
               => LET R == ThinkIteration(think_run, ToolCall(t), "raises")
                  IN /\ R.pc = "loop"
                     /\ R.i = think_run.i + 1
                     /\ R.history = Append(think_run.history,
                                           Observation("used", t, "error_executing"))
                     /\ R.i < R.k
                           => /\ ThinkIteration(R, PlainText, "returns").pc = "done"
                              /\ ThinkIteration(R, PlainText, "returns").result
                                   = "final_answer"

C22_Witness ==
    /\ think_run.pc = "done"
    /\ think_run.result = "final_answer"
    /\ think_run.history # <<>>
    /\ Last(think_run.history).obs = "error_executing"

\* C23: every tool think has executed is registered and permitted to the
\* agent, and a tool call that names any other tool executes nothing,
\* appends the observation that the tool is not available and lets the
\* loop go on.
C23_OnlyPermittedToolsRun ==
    /\ Elems(think_run.executed) \subseteq Permitted(think_run.allowed)
    /\ \A t \in ToolNames, outcome \in ExecuteOutcomes :
           (/\ think_run.pc = "loop"
            /\ think_run.i < think_run.k
            /\ t \notin Permitted(think_run.allowed))
               => LET R == ThinkIteration(think_run, ToolCall(t), outcome)
                  IN /\ R.executed = think_run.executed
                     /\ R.pc = "loop"
                     /\ R.history = Append(think_run.history,
                                           Observation("tried", t, "not_available"))

C23_Witness ==
    /\ think_run.allowed = [given |-> TRUE, names |-> {"ok"}]
    /\ think_run.executed = <<"ok">>
    /\ Len(think_run.history) = 2
    /\ think_run.history[2] = Observation("tried", "other", "not_available")

\* C24: a model call that fails inside a turn of think leaves the loop
\* running with one more observation in the history.
C24_ModelFailureRecorded ==
    [][\A outcome \in ExecuteOutcomes :
           (/\ think_run.pc = "loop"
            /\ think_run.i < think_run.k
            /\ DoThinkIteration(ModelFailure, outcome))
               => /\ think_run'.pc = "loop"
                  /\ think_run'.raised = None
                  /\ Len(think_run'.history) = Len(think_run.history) + 1]_vars

\* C25: once stop is signalled while think is running, the next step of
\* think returns the cancelled sentinel without a further model call or
\* tool execution.
C25_StopInterruptsThink ==
    [][(/\ think_run.pc = "loop"
        /\ think_run.stop
        /\ think_run.i < think_run.k
        /\ think_run' # think_run)
           => /\ think_run'.pc = "done"
              /\ think_run'.result = Cancelled
              /\ think_run'.calls = think_run.calls
              /\ think_run'.executed = think_run.executed]_vars

\* C26: whatever start_agent, stop_agent and delete_agent calls were made,
\* with the agent's start or stop returning or raising, every agent of the
\* active map has an inbox at the broker.
C26_ActiveHasInbox == active_agents \subseteq DOMAIN agent_queues

C26_Witness ==
    /\ active_agents = {"a1"}
    /\ "a2" \in DOMAIN agent_queues
    /\ "a1" \notin agent_rows

\* C27: when delete_agent returns success the agent has no row, get_agent
\* finds nothing, the agent is not in the active map and has no inbox at
\* the broker, whether it was active or not and whether its stop returned
\* or raised.
C27_DeletedAgentIsGone ==
    [][\A id \in BrokerAgents, outcome \in AgentOutcomes :
           (/\ DeleteAgentResult(ManagerHere, id, outcome) = "true"
            /\ DoDeleteAgent(id, outcome))
               => /\ id \notin agent_rows'
                  /\ id \notin active_agents'
                  /\ id \notin DOMAIN agent_queues'
                  /\ ~GetAgentFound(Manager(agent_rows', active_agents',
                                            agent_queues', broadcast_channels'), id)]_vars

\* C28: when create_team returns success for stored agents, every agent it
\* was given is a member of the channel of the team, once.
C28_TeamMembersJoined ==
    \A name \in TeamNames, ids \in SUBSET agent_rows :
        CreateTeamResult(ManagerHere, name, ids) = "true"
            => \A a \in ids :
                   LET ch == CreateTeam(ManagerHere, name, ids).ch
                   IN /\ ChannelOf(name) \in DOMAIN ch
                      /\ Cardinality({i \in 1..Len(ch[ChannelOf(name)]) :
                                          ch[ChannelOf(name)][i] = a}) = 1

\* C29: one auto-assignment cycle assigns at most 5 tasks, no available
\* task left behind has a higher priority than an assigned one, each is
\* given to an agent whose number of concurrent tasks was minimal among all
\* agents and below 3, and no agent ends with more than 3 concurrent tasks.
C29_AutoAssignLeastLoaded ==
    ~OverdueRaises(tasks) =>
        LET S2 == AutoAssignTasks(Here)
            new == NewlyAssigned(Here, S2)
            left == {id \in DOMAIN S2.t :
                        S2.t[id].status = "pending" /\ id \notin new}
        IN  /\ Cardinality(new) <= BatchLimit
            /\ \A id \in new :
                   /\ \A x \in left : tasks[x].priority <= tasks[id].priority
                   /\ \A b \in DOMAIN agent_queues :
                          Concurrent(tasks, S2.t[id].assigned_agent)
                              <= Concurrent(tasks, b)
                   /\ Concurrent(tasks, S2.t[id].assigned_agent) < WorkloadCap
                   /\ Concurrent(S2.t, S2.t[id].assigned_agent) <= WorkloadCap

\* C30: a cycle leaves, for every agent with an inbox, at least one more
\* notification in the inbox for each of its overdue, unfinished tasks.
C30_OverdueNotified ==
    \A a \in DOMAIN agent_queues :
        Len(CheckOverdueTasks(tasks, agent_queues)[a])
            >= Len(agent_queues[a])
                   + Cardinality(OverdueFor(tasks, agent_queues, a))

\* C31: a restart on the same store gives back every task that was in the
\* table and has a row, with the status, assigned_agent, dependencies,
\* progress, subtasks and parent_task it had, and workloads that obey the
\* accounting rule.
C31_RestartRoundTrip ==
    [][DoRestart =>
          /\ \A id \in DOMAIN tasks \cap DOMAIN task_rows :
                 /\ id \in DOMAIN tasks'
                 /\ tasks'[id] = tasks[id]
                 /\ task_family'[id] = task_family[id]
          /\ \A a \in StoreAgents, id \in DOMAIN tasks' :
                 InSeq(WorkloadOf(agent_workloads', a), id)
                     <=> (/\ tasks'[id].assigned_agent = a
                          /\ tasks'[id].status \in {"assigned", "in_progress"})]_vars

\* C33: a create, assign, update_progress, complete or fail during which
\* the store fails leaves the tasks, their parents and subtasks and the
\* workloads as they were before it.
C33_StoreFailureRollsBack ==
    [][(\/ \E by \in Creators, ag \in Agents \cup {None} :
             DoStoreCreateTask(by, ag, {}, NoTask, "fails")
        \/ \E id \in TaskIds, agent \in Agents : DoStoreAssignTask(id, agent, "fails")
        \/ \E id \in TaskIds, p \in StoreProgress, st \in StoreStatus :
             DoStoreUpdateTaskProgress(id, p, st, "fails")
        \/ \E id \in TaskIds : DoStoreCompleteTask(id, "fails")
        \/ \E id \in TaskIds : DoStoreFailTask(id, "fails"))
          => /\ tasks' = tasks
             /\ agent_workloads' = agent_workloads
             /\ task_family' = task_family]_vars

\* C35: a task is among the subtasks of a task of the table exactly if that
\* task is its parent_task.
C35_ParentSubtaskConsistent ==
    \A p \in DOMAIN tasks, c \in DOMAIN tasks :
        InSeq(task_family[p].subtasks, c) <=> task_family[c].parent_task = p

\* C36: a task id occurs at most once over all the workload lists, and only
\* in the list of the agent the task is assigned to.
C36_WorkloadEntriesUnique ==
    \A id \in DOMAIN tasks :
        /\ Cardinality({<<i, j>> \in (1..Len(agent_workloads)) \X (1..MaxWorkload) :
                           /\ j <= Len(agent_workloads[i].tasks)
                           /\ agent_workloads[i].tasks[j] = id}) <= 1
        /\ \A i \in 1..Len(agent_workloads) :
               InSeq(agent_workloads[i].tasks, id)
                   => tasks[id].assigned_agent = agent_workloads[i].agent

\* C39: a task whose dependencies are all completed still has satisfied
\* dependencies after a pass of the loop and after a restart.
C39_CompletedDependencyStays ==
    [][((\E old \in BOOLEAN : DoStorePass(old)) \/ DoRestart)
          => \A id \in DOMAIN tasks \cap DOMAIN tasks' :
                 (tasks[id].dependencies # {} /\ CheckDependencies(tasks, tasks[id]))
                     => CheckDependencies(tasks', tasks'[id])]_vars

\* C40: a pending task with satisfied dependencies is assigned after at most
\* as many passes of the loop as there are tasks, when some agent with an
\* inbox has fewer than 3 concurrent tasks.
C40_AutoAssignProgress ==
    \A id \in DOMAIN tasks :
        (/\ tasks[id].status = "pending"
         /\ CheckDependencies(tasks, tasks[id])
         /\ \E a \in DOMAIN agent_queues : Concurrent(tasks, a) < WorkloadCap)
            => Cycles(Here, MaxTasks).t[id].status = "assigned"

\* C38: every copy that a broadcast delivers has the sender, message type,
\* content, metadata, conversation id, priority and requires_response flag
\* of the message that was sent.
C38_BroadcastCopyFaithful ==
    (full_message.id # 0
        /\ (full_message.recipient = "ALL" \/ full_message.message_type = "broadcast"))
        => \A a \in DOMAIN full_copies :
               /\ full_copies[a].sender = full_message.sender
               /\ full_copies[a].message_type = full_message.message_type
               /\ full_copies[a].content = full_message.content
               /\ full_copies[a].metadata = full_message.metadata
               /\ full_copies[a].conversation_id = full_message.conversation_id
               /\ full_copies[a].priority = full_message.priority
               /\ full_copies[a].requires_response = full_message.requires_response

\* C37: while the scheduler is running at most one instance of the loop is
\* alive, and while it is stopped no instance makes a pass.
C37_SingleLoop ==
    [][/\ running' => Cardinality(Live(loops')) <= 1
       /\ (~running /\ ~running') => cycle_count' = cycle_count]_vars

C34_OperationsSerialized ==
    [][/\ \A c \in Coroutines :
             /\ coroutines'[c].pc \notin Resting => owner' = c
             /\ (coroutines[c].pc \notin Resting /\ coroutines'[c].pc \in Resting)
                    => Here' = WholeOperation(coroutines[c].start, coroutines[c])
       /\ Cardinality({c \in Coroutines : coroutines'[c].pc \notin Resting}) <= 1
      ]_vars

\* the handler is inside complete_task for task 1, which the worker had
\* assigned, while the loop sleeps between two passes
C34_Witness ==
    /\ coroutines["handler"].pc = "c_notify"
    /\ owner = "handler"
    /\ coroutines["handler"].start.t[1].status = "assigned"
    /\ tasks[1].status = "completed"
    /\ coroutines["worker"].pc = "idle"
    /\ coroutines["loop"].pc = "sleeping"
    /\ 2 \in DOMAIN tasks

====
